---------------------------- MODULE Spec2Model ----------------------------
(***************************************************************************)
(* DirectoryWatcher (DirectoryWatcher.h / DirectoryWatcher.cpp).           *)
(*                                                                         *)
(* Two threads: the controlling/consumer thread (AddDirectory,             *)
(* TryGetNextChange, ShutDown) and the watcher thread (ThreadProc), which  *)
(* runs the queued start-watching jobs and the read completion routines.   *)
(* The operating system is the third party: it completes the asynchronous  *)
(* reads and queues their completion routines to the watcher thread.       *)
(*                                                                         *)
(* Spec       the whole watcher                                            *)
(* LiveSpec   Spec with the fairness of the spin lock's users              *)
(* QueueSpec  ThreadSafeQueue alone, driven by any sequence of Push / Pop  *)
(* GrowSpec   ThreadSafeQueue alone, long enough to grow at any front index *)
(* DecodeSpec ProcessNotification on any buffer of entries of one request    *)
(***************************************************************************)
EXTENDS Integers, Sequences, FiniteSets, TLC

VARIABLES
    requests,                   \* DirectoryWatcher::requests (list head)
    heap,                       \* the ReadChangesRequest blocks, by address
    should_terminate,           \* DirectoryWatcher::should_terminate
    outstanding_request_count,  \* DirectoryWatcher::outstanding_request_count
    queue,                      \* ThreadSafeQueue: data, capacity, count, front_index
    lock,                       \* ThreadSafeQueue::lock
    handles,                    \* OS: state of each directory handle
    inflight,                   \* OS: buffer targeted by the pending read of a request
    apc,                        \* OS: APC queue of the watcher thread
    renaming,                   \* OS: a directory whose rename is half reported
    reported,                   \* OS: number of notification entries reported so far
    wpc,                        \* watcher thread: position
    running,                    \* watcher thread: the completion routine it is running
    wbuffer,                    \* watcher thread: buffer being decoded (NullBuffer: none)
    woffset,                    \* watcher thread: offset of the entry being decoded
    cpc,                        \* controlling thread: position
    current,                    \* controlling thread: ShutDown's list cursor
    out_change,                 \* controlling thread: the caller's FileChange
    last,                       \* the last call of the API that returned, and its result
    pushed,                     \* history: every record Push has stored, in order
    popped                      \* history: every record Pop has returned, in order

vars == <<requests, heap, should_terminate, outstanding_request_count, queue, lock,
          handles, inflight, apc, renaming, reported, wpc, running, wbuffer, woffset,
          cpc, current, out_change, last, pushed, popped>>

watcherVars == <<requests, heap, should_terminate, outstanding_request_count, lock,
                 handles, inflight, apc, renaming, reported, wpc, running, wbuffer,
                 woffset, cpc, current>>

-----------------------------------------------------------------------------
(* Bounds of the model *)

\* AddDirectory is called at most this many times
MaxRequests == 1
\* the OS completes reads with at most this many notification entries in all,
\* an overflow counting as one
MaxReported == 2
\* QueueSpec: at most this many Push calls
MaxPush == 18
\* QueueSpec: at most this many of the pushed records are RenamedFrom
MaxRenamedFrom == 2
\* DecodeSpec: a notification buffer holds at most this many entries
MaxEntries == 2
\* GrowSpec: at most this many Push calls, so that the queue gets full at every
\* front index of its first storage
MaxGrowPush == 32

-----------------------------------------------------------------------------
(* Program constants *)

InitialCapacity == 16
GrowRate == 2
MAX_PATH == 260
ERROR_OPERATION_ABORTED == 995
FILE_ACTION_ADDED == 1
FILE_ACTION_REMOVED == 2
FILE_ACTION_MODIFIED == 3
FILE_ACTION_RENAMED_OLD_NAME == 4
FILE_ACTION_RENAMED_NEW_NAME == 5
FILE_ATTRIBUTE_DIRECTORY == 16

NULL == 0
INVALID_HANDLE_VALUE == -1
NullBuffer == -1
NoRead == NullBuffer
Backslash == 92
ReplacementChar == 65533

RequestIds == 1..MaxRequests

-----------------------------------------------------------------------------
(* UTF-8 <-> UTF-16 conversion (MultiByteToWideChar / WideCharToMultiByte   *)
(* with CP_UTF8), for code points below U+0800 and three-byte code points.  *)

IsContinuation(b) == b >= 128 /\ b < 192

RECURSIVE MultiByteToWideChar(_)
MultiByteToWideChar(bytes) ==
    IF bytes = <<>> THEN <<>>
    ELSE LET b == Head(bytes) IN
         IF b < 128
         THEN <<b>> \o MultiByteToWideChar(Tail(bytes))
         ELSE IF b >= 192 /\ b < 224 /\ Len(bytes) >= 2 /\ IsContinuation(bytes[2])
         THEN <<(b - 192) * 64 + (bytes[2] - 128)>>
              \o MultiByteToWideChar(SubSeq(bytes, 3, Len(bytes)))
         ELSE <<ReplacementChar>> \o MultiByteToWideChar(Tail(bytes))

EncodeUnit(u) ==
    IF u < 128 THEN <<u>>
    ELSE IF u < 2048 THEN <<192 + (u \div 64), 128 + (u % 64)>>
    ELSE <<224 + (u \div 4096), 128 + ((u \div 64) % 64), 128 + (u % 64)>>

RECURSIVE EncodeUnits(_)
EncodeUnits(units) ==
    IF units = <<>> THEN <<>> ELSE EncodeUnit(Head(units)) \o EncodeUnits(Tail(units))

\* the converted bytes, or nothing (the call returns 0) when they do not fit
WideCharToMultiByte(units, cbMultiByte) ==
    LET bytes == EncodeUnits(units) IN
    IF Len(bytes) <= cbMultiByte THEN bytes ELSE <<>>

-----------------------------------------------------------------------------
(* FileChange and EFileAction *)

FileChange(path, action, is_directory) ==
    [path |-> path, action |-> action, is_directory |-> is_directory]

\* a FileChange = {} and a slot of malloc'ed storage never written
ZeroChange == FileChange(<<>>, "None", FALSE)
Uninitialized == FileChange(<<>>, "Uninitialized", FALSE)

EFileAction(code) ==
    CASE code = FILE_ACTION_ADDED -> "Added"
      [] code = FILE_ACTION_REMOVED -> "Removed"
      [] code = FILE_ACTION_MODIFIED -> "Modified"
      [] code = FILE_ACTION_RENAMED_OLD_NAME -> "RenamedFrom"
      [] code = FILE_ACTION_RENAMED_NEW_NAME -> "RenamedTo"
      [] OTHER -> "None"

-----------------------------------------------------------------------------
(* ThreadSafeQueue.  data is the storage block: slot i of the code is       *)
(* data[i + 1]; a destroyed queue has no storage and capacity 0.            *)

Slot(q, i) == q.data[i + 1]

Create ==
    [data |-> [i \in 1..InitialCapacity |-> Uninitialized],
     capacity |-> InitialCapacity, count |-> 0, front_index |-> 0]

\* Grow that copies the storage as it lies, from slot 0
GrowUnrotated(q) ==
    LET new_capacity == q.capacity * GrowRate
        new_data == [i \in 1..new_capacity |->
                        IF i <= q.count THEN q.data[i] ELSE Uninitialized]
    IN [data |-> new_data, capacity |-> new_capacity, count |-> q.count,
        front_index |-> 0]

\* Grow that leaves front_index where it was
GrowFrontKept(q) ==
    LET new_capacity == q.capacity * GrowRate
        block1_count == q.capacity - q.front_index
        new_data == [i \in 1..new_capacity |->
            IF i <= block1_count /\ i <= q.count THEN q.data[q.front_index + i]
            ELSE IF i <= q.count THEN q.data[i - block1_count]
            ELSE Uninitialized]
    IN [data |-> new_data, capacity |-> new_capacity, count |-> q.count,
        front_index |-> q.front_index]

Grow(q) ==
    LET new_capacity == q.capacity * GrowRate
        block1_count == q.capacity - q.front_index
        new_data == [i \in 1..new_capacity |->
            IF q.front_index + q.count > q.capacity
            THEN IF i <= block1_count THEN q.data[q.front_index + i]
                 ELSE IF i <= q.count THEN q.data[i - block1_count]
                 ELSE Uninitialized
            ELSE IF i <= q.count THEN q.data[q.front_index + i]
                 ELSE Uninitialized]
    IN [data |-> new_data, capacity |-> new_capacity, count |-> q.count,
        front_index |-> 0]

\* the locked section of Push, on a queue that has storage
Push(q, element) ==
    LET g == IF q.count = q.capacity THEN Grow(q) ELSE q
        back_index == (g.front_index + g.count) % g.capacity
    IN [g EXCEPT !.data[back_index + 1] = element, !.count = g.count + 1]

HasSplitRenameNever(q) == FALSE

HasSplitRename(q) ==
    q.count = 1 /\ Slot(q, q.front_index).action = "RenamedFrom"

\* Pop that advances front_index without wrapping it
PopUnwrapped(q, element) ==
    IF q.count # 0 /\ ~HasSplitRename(q)
    THEN [queue |-> [q EXCEPT !.count = q.count - 1,
                              !.front_index = q.front_index + 1],
          result |-> TRUE, element |-> q.data[(q.front_index % q.capacity) + 1]]
    ELSE [queue |-> q, result |-> FALSE, element |-> element]

\* the locked section of Pop: the queue after it, the result, and *element
Pop(q, element) ==
    IF q.count # 0 /\ ~HasSplitRename(q)
    THEN [queue |-> [q EXCEPT !.count = q.count - 1,
                              !.front_index = (q.front_index + 1) % q.capacity],
          result |-> TRUE, element |-> Slot(q, q.front_index)]
    ELSE [queue |-> q, result |-> FALSE, element |-> element]

Destroy(q) == [data |-> <<>>, capacity |-> 0, count |-> 0, front_index |-> 0]

UnlockForgotten(l) == l

\* InterlockedExchange(&lock, 0)
Unlock(l) == 0

\* the live records of the queue, front first
Live(q) == [i \in 1..q.count |-> Slot(q, (q.front_index + i - 1) % q.capacity)]


-----------------------------------------------------------------------------
(* The inputs the model draws from *)

\* directory paths given to AddDirectory, in UTF-8: "<e-acute>\"
DirectoryPaths == { <<195, 169, Backslash>> }

\* native action codes the OS reports: the changes watched are renames
NativeActions == {FILE_ACTION_RENAMED_OLD_NAME, FILE_ACTION_RENAMED_NEW_NAME}

\* the file name reported with an action code, in UTF-16: "b" for a new name, else "a"
NameOf(code) == IF code = FILE_ACTION_RENAMED_NEW_NAME THEN <<98>> ELSE <<97>>

\* FILE_NOTIFY_EXTENDED_INFORMATION; NextEntryOffset counts entries, 0 in the last one
NotifyEntry(code, more) ==
    [Action |-> code, FileName |-> NameOf(code), FileAttributes |-> 0,
     NextEntryOffset |-> IF more THEN 1 ELSE 0]

\* The OS reports a rename as an old-name entry directly followed by the new-name
\* entry of the same directory; the two may end up in different buffers.
WellFormed(codes, half) ==
    \A i \in 1..Len(codes) :
        LET before == IF i = 1 THEN half
                      ELSE codes[i - 1] = FILE_ACTION_RENAMED_OLD_NAME
        IN (codes[i] = FILE_ACTION_RENAMED_NEW_NAME) <=> before

Reports(half, room) ==
    UNION { { codes \in [1..n -> NativeActions] : WellFormed(codes, half) } :
            n \in 1..room }

BufferOf(codes) ==
    [i \in 1..Len(codes) |-> NotifyEntry(codes[i], i < Len(codes))]

-----------------------------------------------------------------------------
(* The state after Initialize *)

Unallocated ==
    [state |-> "unallocated", buffers |-> <<<<>>, <<>>>>, path |-> <<>>,
     buffer_index |-> 0, directory |-> INVALID_HANDLE_VALUE, next |-> NULL]

NoApc == [kind |-> "none", request |-> NULL, error_code |-> 0, bytes_transferred |-> 0]

Returned(op, result) == [op |-> op, result |-> result]

Init ==
    /\ requests = NULL
    /\ heap = [r \in RequestIds |-> Unallocated]
    /\ should_terminate = FALSE
    /\ outstanding_request_count = 0
    /\ queue = Create
    /\ lock = 0
    /\ handles = [r \in RequestIds |-> "unopened"]
    /\ inflight = [r \in RequestIds |-> NoRead]
    /\ apc = <<>>
    /\ renaming = [r \in RequestIds |-> FALSE]
    /\ reported = 0
    /\ wpc = "check"
    /\ running = NoApc
    /\ wbuffer = NullBuffer
    /\ woffset = 0
    /\ cpc = "idle"
    /\ current = NULL
    /\ out_change = ZeroChange
    /\ last = Returned("Initialize", TRUE)
    /\ pushed = <<>>
    /\ popped = <<>>

-----------------------------------------------------------------------------
(* Controlling thread: AddDirectory *)

Allocated == { r \in RequestIds : heap[r].state # "unallocated" }

OpenSucceededAlways(handle) == TRUE

\* request->directory != (void*)-1
OpenSucceeded(handle) == handle # INVALID_HANDLE_VALUE

RECURSIVE LastRequest(_, _)
LastRequest(h, r) == IF h[r].next = NULL THEN r ELSE LastRequest(h, h[r].next)

\* the block malloc gives: the lowest free one of the model's blocks
FreeBlock ==
    IF RequestIds \ Allocated = {} THEN NULL
    ELSE CHOOSE x \in RequestIds \ Allocated : \A y \in RequestIds \ Allocated : x <= y

\* AddDirectory that begins the first read itself, on the caller's thread,
\* where the code queues the start-watching job to the watcher thread
AddDirectoryArming(directory, handle) ==
    /\ cpc = "idle"
    /\ handle \in {FreeBlock, INVALID_HANDLE_VALUE} \ {NULL}
    /\ LET r == FreeBlock
           request == [state |-> "allocated", buffers |-> <<<<>>, <<>>>>,
                       path |-> MultiByteToWideChar(directory),
                       buffer_index |-> 1, directory |-> handle, next |-> NULL]
       IN IF OpenSucceeded(handle)
          THEN /\ IF requests # NULL
                  THEN /\ heap' = [heap EXCEPT ![r] = request,
                                      ![LastRequest(heap, requests)].next = r]
                       /\ UNCHANGED requests
                  ELSE /\ heap' = [heap EXCEPT ![r] = request]
                       /\ requests' = r
               /\ handles' = [h \in RequestIds |->
                                 IF h = handle THEN "open" ELSE handles[h]]
               /\ outstanding_request_count' = outstanding_request_count + 1
               /\ inflight' = [inflight EXCEPT ![r] = 0]
               /\ last' = Returned("AddDirectory", TRUE)
          ELSE /\ last' = Returned("AddDirectory", FALSE)
               /\ UNCHANGED <<requests, heap, handles, outstanding_request_count,
                              inflight>>
    /\ UNCHANGED <<should_terminate, queue, lock, apc, renaming, reported, wpc,
                   running, wbuffer, woffset, cpc, current, out_change, pushed, popped>>

\* CreateFileW gives `handle`: the handle of the block's directory, or
\* INVALID_HANDLE_VALUE, and then free(request) gives the block back
AddDirectory(directory, handle) ==
    /\ cpc = "idle"
    /\ handle \in {FreeBlock, INVALID_HANDLE_VALUE} \ {NULL}
    /\ LET r == FreeBlock
           request == [state |-> "allocated", buffers |-> <<<<>>, <<>>>>,
                       path |-> MultiByteToWideChar(directory),
                       buffer_index |-> 0, directory |-> handle, next |-> NULL]
       IN IF OpenSucceeded(handle)
          THEN /\ IF requests # NULL
                  THEN /\ heap' = [heap EXCEPT ![r] = request,
                                      ![LastRequest(heap, requests)].next = r]
                       /\ UNCHANGED requests
                  ELSE /\ heap' = [heap EXCEPT ![r] = request]
                       /\ requests' = r
               /\ handles' = [h \in RequestIds |->
                                 IF h = handle THEN "open" ELSE handles[h]]
               /\ apc' = Append(apc, [NoApc EXCEPT !.kind = "start", !.request = r])
               /\ last' = Returned("AddDirectory", TRUE)
          ELSE /\ last' = Returned("AddDirectory", FALSE)
               /\ UNCHANGED <<requests, heap, handles, apc>>
    /\ UNCHANGED <<should_terminate, outstanding_request_count, queue, lock, inflight,
                   renaming, reported, wpc, running, wbuffer, woffset, cpc, current,
                   out_change, pushed, popped>>

-----------------------------------------------------------------------------
(* Controlling thread: TryGetNextChange, which is queue.Pop *)

TryGetNextChange ==
    /\ cpc = "idle"
    /\ cpc' = "pop_lock"
    /\ UNCHANGED <<requests, heap, should_terminate, outstanding_request_count, queue,
                   lock, handles, inflight, apc, renaming, reported, wpc, running,
                   wbuffer, woffset, current, out_change, last, pushed, popped>>

\* Pop that enters its section without Lock()
PopLockUnguarded ==
    /\ cpc = "pop_lock"
    /\ lock' = 1
    /\ cpc' = "pop_body"
    /\ UNCHANGED <<requests, heap, should_terminate, outstanding_request_count, queue,
                   handles, inflight, apc, renaming, reported, wpc, running, wbuffer,
                   woffset, current, out_change, last, pushed, popped>>

\* Lock(): the InterlockedExchange that finds the lock free
PopLock ==
    /\ cpc = "pop_lock"
    /\ lock = 0
    /\ lock' = 1
    /\ cpc' = "pop_body"
    /\ UNCHANGED <<requests, heap, should_terminate, outstanding_request_count, queue,
                   handles, inflight, apc, renaming, reported, wpc, running, wbuffer,
                   woffset, current, out_change, last, pushed, popped>>

PopBody ==
    /\ cpc = "pop_body"
    /\ LET p == Pop(queue, out_change)
       IN /\ queue' = p.queue
          /\ out_change' = p.element
          /\ last' = Returned("TryGetNextChange", p.result)
          /\ popped' = IF p.result THEN Append(popped, p.element) ELSE popped
    /\ lock' = Unlock(lock)
    /\ cpc' = "idle"
    /\ UNCHANGED <<requests, heap, should_terminate, outstanding_request_count, handles,
                   inflight, apc, renaming, reported, wpc, running, wbuffer, woffset,
                   current, pushed>>

-----------------------------------------------------------------------------
(* Controlling thread: ShutDown.  It does not wait for the watcher thread:  *)
(* it closes the thread's handle and goes on to queue.Destroy.              *)

\* What a read of a field of block r yields.  A freed block may hold the value
\* it had or anything else the allocator left there.
ReadDirectory(r) ==
    IF heap[r].state = "allocated" THEN {heap[r].directory}
    ELSE {heap[r].directory, INVALID_HANDLE_VALUE}

ReadNext(r) ==
    IF heap[r].state = "allocated" THEN {heap[r].next}
    ELSE {heap[r].next, NULL}

\* should_terminate = true; current = requests
ShutDown ==
    /\ cpc = "idle"
    /\ should_terminate' = TRUE
    /\ current' = requests
    /\ cpc' = "shutdown_loop"
    /\ UNCHANGED <<requests, heap, outstanding_request_count, queue, lock, handles,
                   inflight, apc, renaming, reported, wpc, running, wbuffer, woffset,
                   out_change, last, pushed, popped>>

\* CancelIo(request->directory); CloseHandle(request->directory): the read
\* pending on the handle, if any, is cancelled (OsAbort reports it)
ShutDownClose ==
    /\ cpc = "shutdown_loop"
    /\ current # NULL
    /\ \E directory \in ReadDirectory(current) :
          handles' = [h \in RequestIds |->
                         IF h = directory /\ handles[h] = "open"
                         THEN "closed" ELSE handles[h]]
    /\ cpc' = "shutdown_next"
    /\ UNCHANGED <<requests, heap, should_terminate, outstanding_request_count, queue,
                   lock, inflight, apc, renaming, reported, wpc, running, wbuffer,
                   woffset, current, out_change, last, pushed, popped>>

\* current = current->next
ShutDownNext ==
    /\ cpc = "shutdown_next"
    /\ \E n \in ReadNext(current) : current' = n
    /\ cpc' = "shutdown_loop"
    /\ UNCHANGED <<requests, heap, should_terminate, outstanding_request_count, queue,
                   lock, handles, inflight, apc, renaming, reported, wpc, running,
                   wbuffer, woffset, out_change, last, pushed, popped>>

\* the loop ends; CloseHandle(thread_handle); queue.Destroy() begins
ShutDownCloseThread ==
    /\ cpc = "shutdown_loop"
    /\ current = NULL
    /\ cpc' = "destroy_lock"
    /\ UNCHANGED <<requests, heap, should_terminate, outstanding_request_count, queue,
                   lock, handles, inflight, apc, renaming, reported, wpc, running,
                   wbuffer, woffset, current, out_change, last, pushed, popped>>

DestroyLock ==
    /\ cpc = "destroy_lock"
    /\ lock = 0
    /\ lock' = 1
    /\ cpc' = "destroy_body"
    /\ UNCHANGED <<requests, heap, should_terminate, outstanding_request_count, queue,
                   handles, inflight, apc, renaming, reported, wpc, running, wbuffer,
                   woffset, current, out_change, last, pushed, popped>>

\* the locked section of Destroy, and ShutDown returns
DestroyBody ==
    /\ cpc = "destroy_body"
    /\ queue' = Destroy(queue)
    /\ lock' = Unlock(lock)
    /\ cpc' = "returned"
    /\ last' = Returned("ShutDown", TRUE)
    /\ UNCHANGED <<requests, heap, should_terminate, outstanding_request_count, handles,
                   inflight, apc, renaming, reported, wpc, running, wbuffer, woffset,
                   current, out_change, pushed, popped>>

-----------------------------------------------------------------------------
(* Watcher thread *)

\* SleepEx runs every queued APC before it returns to ThreadProc's loop test
AfterCallback(q) == IF q = <<>> THEN "check" ELSE "sleep"

\* while (outstanding_request_count || !should_terminate) SleepEx(-1, true)
ThreadProc ==
    /\ wpc = "check"
    /\ wpc' = IF outstanding_request_count # 0 \/ ~should_terminate
              THEN "sleep" ELSE "exited"
    /\ UNCHANGED <<requests, heap, should_terminate, outstanding_request_count, queue,
                   lock, handles, inflight, apc, renaming, reported, running, wbuffer,
                   woffset, cpc, current, out_change, last, pushed, popped>>

\* The counter is a u32 that the model never takes far from 0; a decrement of 0,
\* 0xFFFFFFFF in the code, is the nonzero value -1 here.
InterlockedIncrement(n) == n + 1

InterlockedDecrement(n) == n - 1

\* BeginRead that leaves buffer_index as it is
BeginReadUntoggled(h, fl, r) ==
    [heap |-> h,
     inflight |-> IF h[r].directory \in RequestIds /\ handles[h[r].directory] = "open"
                  THEN [fl EXCEPT ![r] = h[r].buffer_index]
                  ELSE fl]

\* The heap and the pending reads after BeginRead(r).  ReadDirectoryChangesExW
\* fails, and nothing is pending, when the directory handle is no longer open.
BeginRead(h, fl, r) ==
    [heap |-> [h EXCEPT ![r].buffer_index = 1 - h[r].buffer_index],
     inflight |-> IF h[r].directory \in RequestIds /\ handles[h[r].directory] = "open"
                  THEN [fl EXCEPT ![r] = h[r].buffer_index]
                  ELSE fl]

ThreadAddDirectoryProc ==
    /\ wpc = "sleep"
    /\ apc # <<>>
    /\ Head(apc).kind = "start"
    /\ LET r == Head(apc).request
           b == BeginRead(heap, inflight, r)
       IN /\ outstanding_request_count' = InterlockedIncrement(outstanding_request_count)
          /\ heap' = b.heap
          /\ inflight' = b.inflight
    /\ apc' = Tail(apc)
    /\ wpc' = AfterCallback(apc')
    /\ UNCHANGED <<requests, should_terminate, queue, lock, handles, renaming, reported,
                   running, wbuffer, woffset, cpc, current, out_change, last, pushed,
                   popped>>

\* the test without the termination flag
IsShutdownCompletionAbortOnly(error_code) == error_code = ERROR_OPERATION_ABORTED

\* the test that takes every completion for a shutdown
IsShutdownCompletionAlways(error_code) == TRUE

\* error_code == ERROR_OPERATION_ABORTED || watcher->should_terminate
IsShutdownCompletion(error_code) ==
    error_code = ERROR_OPERATION_ABORTED \/ should_terminate

\* NotificationCompletion up to its shutdown test: the request is released, or
\* the routine goes on
NotificationCompletion ==
    /\ wpc = "sleep"
    /\ apc # <<>>
    /\ Head(apc).kind = "completion"
    /\ apc' = Tail(apc)
    /\ IF IsShutdownCompletion(Head(apc).error_code)
       THEN /\ outstanding_request_count' =
                   InterlockedDecrement(outstanding_request_count)
            /\ heap' = [heap EXCEPT ![Head(apc).request].state = "freed"]
            /\ wpc' = AfterCallback(apc')
            /\ UNCHANGED running
       ELSE /\ running' = Head(apc)
            /\ wpc' = "rearm"
            /\ UNCHANGED <<outstanding_request_count, heap>>
    /\ UNCHANGED <<requests, should_terminate, queue, lock, handles, inflight, renaming,
                   reported, wbuffer, woffset, cpc, current, out_change, last, pushed,
                   popped>>

\* !error_code && !bytes_transferred
DidOverflow(completion) ==
    completion.error_code = 0 /\ completion.bytes_transferred = 0

CompletionBeginReadSkipped(h, fl, r) == [heap |-> h, inflight |-> fl]

\* watcher->BeginRead(request) of NotificationCompletion, ahead of
\* ProcessNotification
CompletionBeginRead(h, fl, r) == BeginRead(h, fl, r)

\* NotificationCompletion from did_overflow to BeginRead: the buffer to decode
\* is the one not at buffer_index, and the next read is begun
Rearm ==
    /\ wpc = "rearm"
    /\ LET r == running.request
           b == CompletionBeginRead(heap, inflight, r)
       IN /\ wbuffer' = IF DidOverflow(running) THEN NullBuffer
                        ELSE 1 - heap[r].buffer_index
          /\ heap' = b.heap
          /\ inflight' = b.inflight
    /\ woffset' = 0
    /\ wpc' = "push_lock"
    /\ UNCHANGED <<requests, should_terminate, outstanding_request_count, queue, lock,
                   handles, apc, renaming, reported, running, cpc, current, out_change,
                   last, pushed, popped>>

OverflowChangeAsFile(directory_path) ==
    FileChange(WideCharToMultiByte(directory_path, MAX_PATH * 3), "TooManyChanges", FALSE)

\* ProcessNotification, null buffer: the record it pushes
OverflowChange(directory_path) ==
    FileChange(WideCharToMultiByte(directory_path, MAX_PATH * 3), "TooManyChanges", TRUE)

\* the path with a separator put in whatever the directory path ends in
CombinedPathSeparated(directory_path, file_name) ==
    Append(directory_path, Backslash) \o file_name

\* directory path, a separator unless the path ends in one, and the file name
CombinedPath(directory_path, file_name) ==
    (IF directory_path[Len(directory_path)] # Backslash
     THEN Append(directory_path, Backslash) ELSE directory_path) \o file_name

\* ProcessNotification, one entry of the buffer: the record it pushes
DecodedChange(event, directory_path) ==
    FileChange(WideCharToMultiByte(CombinedPath(directory_path, event.FileName),
                                   MAX_PATH * 3),
               EFileAction(event.Action),
               (event.FileAttributes \div FILE_ATTRIBUTE_DIRECTORY) % 2 = 1)

\* the entry ProcessNotification is at
Event == heap[running.request].buffers[wbuffer + 1][woffset + 1]

\* the record ProcessNotification is about to push
Change ==
    IF wbuffer = NullBuffer
    THEN OverflowChange(heap[running.request].path)
    ELSE DecodedChange(Event, heap[running.request].path)

\* queue.Push: Lock()
PushLock ==
    /\ wpc = "push_lock"
    /\ lock = 0
    /\ lock' = 1
    /\ wpc' = "push_body"
    /\ UNCHANGED <<requests, heap, should_terminate, outstanding_request_count, queue,
                   handles, inflight, apc, renaming, reported, running, wbuffer, woffset,
                   cpc, current, out_change, last, pushed, popped>>

\* queue.Push: the locked section, and ProcessNotification's loop test.  On a
\* destroyed queue Grow's assertion fails (or the modulo divides by zero): the
\* process ends inside the locked section.
PushBody ==
    /\ wpc = "push_body"
    /\ IF queue.capacity = 0
       THEN /\ wpc' = "crashed"
            /\ UNCHANGED <<queue, lock, pushed, running, wbuffer, woffset>>
       ELSE /\ queue' = Push(queue, Change)
            /\ pushed' = Append(pushed, Change)
            /\ lock' = Unlock(lock)
            /\ IF wbuffer # NullBuffer /\ Event.NextEntryOffset # 0
               THEN /\ woffset' = woffset + Event.NextEntryOffset
                    /\ wpc' = "push_lock"
                    /\ UNCHANGED <<running, wbuffer>>
               ELSE /\ wpc' = AfterCallback(apc)
                    /\ running' = NoApc
                    /\ wbuffer' = NullBuffer
                    /\ woffset' = 0
    /\ UNCHANGED <<requests, heap, should_terminate, outstanding_request_count, handles,
                   inflight, apc, renaming, reported, cpc, current, out_change, last,
                   popped>>

-----------------------------------------------------------------------------
(* The operating system: a pending read completes, and its completion       *)
(* routine is queued to the thread that issued it.                          *)

Completion(r, error_code, bytes_transferred) ==
    [kind |-> "completion", request |-> r, error_code |-> error_code,
     bytes_transferred |-> bytes_transferred]

\* changes are reported into the read's buffer
OsReport(r) ==
    /\ inflight[r] # NoRead
    /\ handles[r] = "open"
    /\ reported < MaxReported
    /\ \E codes \in Reports(renaming[r], MaxReported - reported) :
          /\ heap' = [heap EXCEPT ![r].buffers[inflight[r] + 1] = BufferOf(codes)]
          /\ apc' = Append(apc, Completion(r, 0, Len(codes)))
          /\ renaming' = [renaming EXCEPT
                             ![r] = codes[Len(codes)] = FILE_ACTION_RENAMED_OLD_NAME]
          /\ reported' = reported + Len(codes)
    /\ inflight' = [inflight EXCEPT ![r] = NoRead]
    /\ UNCHANGED <<requests, should_terminate, outstanding_request_count, queue, lock,
                   handles, wpc, running, wbuffer, woffset, cpc, current, out_change,
                   last, pushed, popped>>

\* more changes than the buffer holds: no error, no bytes, the changes are lost
OsOverflow(r) ==
    /\ inflight[r] # NoRead
    /\ handles[r] = "open"
    /\ reported < MaxReported
    /\ apc' = Append(apc, Completion(r, 0, 0))
    /\ renaming' = [renaming EXCEPT ![r] = FALSE]
    /\ reported' = reported + 1
    /\ inflight' = [inflight EXCEPT ![r] = NoRead]
    /\ UNCHANGED <<requests, heap, should_terminate, outstanding_request_count, queue,
                   lock, handles, wpc, running, wbuffer, woffset, cpc, current,
                   out_change, last, pushed, popped>>

\* the read was cancelled with its handle
OsAbort(r) ==
    /\ inflight[r] # NoRead
    /\ handles[r] = "closed"
    /\ apc' = Append(apc, Completion(r, ERROR_OPERATION_ABORTED, 0))
    /\ inflight' = [inflight EXCEPT ![r] = NoRead]
    /\ UNCHANGED <<requests, heap, should_terminate, outstanding_request_count, queue,
                   lock, handles, renaming, reported, wpc, running, wbuffer, woffset,
                   cpc, current, out_change, last, pushed, popped>>

-----------------------------------------------------------------------------
(* The watcher *)

Next ==
    \/ \E directory \in DirectoryPaths, handle \in RequestIds \cup {INVALID_HANDLE_VALUE} :
          AddDirectory(directory, handle)
    \/ TryGetNextChange
    \/ PopLock
    \/ PopBody
    \/ ShutDown
    \/ ShutDownClose
    \/ ShutDownNext
    \/ ShutDownCloseThread
    \/ DestroyLock
    \/ DestroyBody
    \/ ThreadProc
    \/ ThreadAddDirectoryProc
    \/ NotificationCompletion
    \/ Rearm
    \/ PushLock
    \/ PushBody
    \/ \E r \in RequestIds : OsReport(r)
    \/ \E r \in RequestIds : OsOverflow(r)
    \/ \E r \in RequestIds : OsAbort(r)

Spec == Init /\ [][Next]_vars

\* A thread inside a locked section goes on to leave it, and a thread that
\* spins on a lock that stays free takes it.
LiveSpec ==
    Spec /\ WF_vars(PushBody) /\ WF_vars(PopBody) /\ WF_vars(PopLock)

-----------------------------------------------------------------------------
(* The queue alone: Push and Pop called in any order after Create *)

RenamedFromPushed ==
    Cardinality({i \in 1..Len(pushed) : pushed[i].action = "RenamedFrom"})

\* the n-th record pushed carries n as its path
QueuePush(action) ==
    /\ Len(pushed) < MaxPush
    /\ action = "RenamedFrom" => RenamedFromPushed < MaxRenamedFrom
    /\ LET element == FileChange(<<Len(pushed) + 1>>, action, FALSE)
       IN /\ queue' = Push(queue, element)
          /\ pushed' = Append(pushed, element)
    /\ last' = Returned("Push", TRUE)
    /\ UNCHANGED <<out_change, popped>>
    /\ UNCHANGED watcherVars

QueuePop ==
    /\ LET p == Pop(queue, out_change)
       IN /\ queue' = p.queue
          /\ out_change' = p.element
          /\ last' = Returned("Pop", p.result)
          /\ popped' = IF p.result THEN Append(popped, p.element) ELSE popped
    /\ UNCHANGED pushed
    /\ UNCHANGED watcherVars

QueueNext ==
    \/ \E action \in {"Added", "RenamedFrom"} : QueuePush(action)
    \/ QueuePop

QueueSpec == Init /\ [][QueueNext]_vars

\* Push and Pop in any order, with pushes enough to fill the first storage
\* wherever its front is
GrowPush ==
    /\ Len(pushed) < MaxGrowPush
    /\ LET element == FileChange(<<Len(pushed) + 1>>, "Added", FALSE)
       IN /\ queue' = Push(queue, element)
          /\ pushed' = Append(pushed, element)
    /\ last' = Returned("Push", TRUE)
    /\ UNCHANGED <<out_change, popped>>
    /\ UNCHANGED watcherVars

GrowNext ==
    \/ GrowPush
    \/ QueuePop

GrowSpec == Init /\ [][GrowNext]_vars

-----------------------------------------------------------------------------
(* ProcessNotification alone: the completion routine of a request has begun *)
(* the next read and decodes a buffer the OS filled with any entries.       *)

\* native action codes, the ones ProcessNotification's switch names and others
DecodeActions == (FILE_ACTION_ADDED - 1)..(FILE_ACTION_RENAMED_NEW_NAME + 1)

\* directory paths in UTF-8, with and without a separator at the end
DecodePaths == { <<195, 169, Backslash>>, <<195, 169>>, <<67, 58, Backslash, 100>> }

\* the buffers the OS may hand over: 1..MaxEntries chained entries
DecodeBuffers ==
    UNION { { BufferOf(codes) : codes \in [1..n -> DecodeActions] } : n \in 1..MaxEntries }

\* the first request of the watcher, in the state in which NotificationCompletion
\* calls ProcessNotification(buffer, request->path, request->path_length)
DecodeInit ==
    \E directory \in DecodePaths, buffer \in DecodeBuffers :
        LET r == CHOOSE x \in RequestIds : \A y \in RequestIds : x <= y
        IN /\ requests = r
           /\ heap = [x \in RequestIds |->
                        IF x = r
                        THEN [state |-> "allocated", buffers |-> <<buffer, <<>>>>,
                              path |-> MultiByteToWideChar(directory),
                              buffer_index |-> 0, directory |-> r, next |-> NULL]
                        ELSE Unallocated]
           /\ should_terminate = FALSE
           /\ outstanding_request_count = 1
           /\ queue = Create
           /\ lock = 0
           /\ handles = [x \in RequestIds |-> IF x = r THEN "open" ELSE "unopened"]
           /\ inflight = [x \in RequestIds |-> IF x = r THEN 1 ELSE NoRead]
           /\ apc = <<>>
           /\ renaming = [x \in RequestIds |-> FALSE]
           /\ reported = 0
           /\ wpc = "push_lock"
           /\ running = Completion(r, 0, Len(buffer))
           /\ wbuffer = 0
           /\ woffset = 0
           /\ cpc = "idle"
           /\ current = NULL
           /\ out_change = ZeroChange
           /\ last = Returned("AddDirectory", TRUE)
           /\ pushed = <<>>
           /\ popped = <<>>

DecodeNext ==
    \/ PushLock
    \/ PushBody

DecodeSpec == DecodeInit /\ [][DecodeNext]_vars

-----------------------------------------------------------------------------
(* Properties *)

Front(q) == Live(q)[1]

\* a read of request r is pending, or has completed and its routine is queued
ReadPending(r) ==
    \/ inflight[r] # NoRead
    \/ \E i \in 1..Len(apc) : apc[i].kind = "completion" /\ apc[i].request = r

\* the watcher thread is inside queue.Push
InPush == wpc \in {"push_lock", "push_body", "crashed"}

\* C1: the records successful Pops have returned are a prefix of the records
\* pushed, in push order, and the records still in the queue are the rest of
\* them, in push order: none is reordered, duplicated, dropped or invented,
\* also when Grow has moved them.
C1_Fifo ==
    /\ Len(popped) <= Len(pushed)
    /\ popped = SubSeq(pushed, 1, Len(popped))
    /\ Live(queue) = SubSeq(pushed, Len(popped) + 1, Len(pushed))

\* every record pushed has been popped again, and the queue has grown on the way
C1_Witness ==
    /\ queue.capacity = InitialCapacity * GrowRate
    /\ Len(pushed) = MaxPush
    /\ popped = pushed

\* C2: a Pop on a queue that holds a RenamedFrom record and nothing else
\* returns false and leaves the queue and the caller's record as they were; a
\* Pop on a queue whose front is a RenamedFrom record followed by at least one
\* more record returns true and yields that RenamedFrom record.
C2_RenamePairing ==
    [][(last'.op = "Pop" /\ pushed' = pushed /\ queue.count > 0
            /\ Front(queue).action = "RenamedFrom")
         => IF queue.count = 1
            THEN /\ ~last'.result
                 /\ queue' = queue
                 /\ out_change' = out_change
                 /\ popped' = popped
            ELSE /\ last'.result
                 /\ out_change' = Front(queue)
                 /\ queue'.count = queue.count - 1
                 /\ Live(queue') = Tail(Live(queue))]_vars

\* a Pop has just been refused on a lone RenamedFrom record
C2_Witness ==
    /\ last = Returned("Pop", FALSE)
    /\ queue.count = 1
    /\ Front(queue).action = "RenamedFrom"

\* C3: every RenamedFrom record TryGetNextChange has returned is followed, among
\* the records pushed so far, by a RenamedTo record.
C3_NoHalfRename ==
    \A i \in 1..Len(popped) :
        popped[i].action = "RenamedFrom"
            => \E j \in (i + 1)..Len(pushed) : pushed[j].action = "RenamedTo"

\* C4: once ShutDown has returned, the watcher thread is not in queue.Push.
C4_NoPushAfterShutDown == cpc = "returned" => ~InPush

\* C5: queue.Destroy is entered, and ShutDown returns, only after the watcher
\* thread has exited.
C5_ShutDownJoins ==
    cpc \in {"destroy_lock", "destroy_body", "returned"} => wpc = "exited"

\* C6: once ShutDown has returned, no directory handle is open.
C6_HandlesClosed ==
    cpc = "returned" => \A h \in RequestIds : handles[h] # "open"

\* C7: an AddDirectory that returns false has changed nothing of the watcher:
\* no block stays allocated, the request list, the APC queue, the counter, the
\* handles and the pending reads are as before; and an AddDirectory that
\* returns true has registered a request whose directory handle is open, so a
\* failed open always returns false.
C7_AddDirectoryFailure ==
    [][(last' # last /\ last'.op = "AddDirectory")
         => IF last'.result
            THEN \E r \in RequestIds :
                    /\ heap[r].state = "unallocated"
                    /\ heap'[r].state = "allocated"
                    /\ heap'[r].directory \in RequestIds
                    /\ handles'[heap'[r].directory] = "open"
                    /\ apc' = Append(apc, [NoApc EXCEPT !.kind = "start",
                                                        !.request = r])
            ELSE UNCHANGED <<requests, heap, apc, outstanding_request_count,
                             handles, inflight, should_terminate, queue, lock,
                             wpc, cpc, current>>]_vars

\* AddDirectory has returned false
C7_Witness == last = Returned("AddDirectory", FALSE)

\* C8: while should_terminate is unset, the completion routine of a read that
\* overflowed (no error, no bytes) begins the next read of its request, and its
\* one Push stores the record TooManyChanges, is_directory, with the directory's
\* path, after which the routine returns.
C8_Overflow ==
    [][(running.kind = "completion" /\ running.error_code = 0
            /\ running.bytes_transferred = 0 /\ ~should_terminate)
         => /\ (wpc = "rearm" /\ wpc' # "rearm")
                  => /\ inflight'[running.request] # NoRead
                     /\ wpc' = "push_lock"
            /\ (wpc = "push_body" /\ wpc' # "push_body")
                  => /\ Len(pushed') = Len(pushed) + 1
                     /\ pushed'[Len(pushed')].action = "TooManyChanges"
                     /\ pushed'[Len(pushed')].is_directory
                     /\ pushed'[Len(pushed')].path \in DirectoryPaths
                     /\ pushed'[Len(pushed')].path
                            = EncodeUnits(heap[running.request].path)
                     /\ Live(queue') = Append(Live(queue), pushed'[Len(pushed')])
                     /\ running' = NoApc
                     /\ wpc' \in {"check", "sleep"}]_vars

\* the overflow record has been pushed, and the next read is pending
C8_Witness ==
    /\ ~should_terminate
    /\ pushed # <<>>
    /\ pushed[Len(pushed)].action = "TooManyChanges"
    /\ wpc \in {"check", "sleep"}
    /\ \E r \in RequestIds : inflight[r] # NoRead

\* C9: every TryGetNextChange returns, whatever the watcher thread and the OS
\* do besides releasing the lock they hold; and on an empty queue it returns
\* false and leaves the queue as it was.
C9_NonBlocking ==
    /\ (cpc = "pop_lock") ~> (cpc = "idle")
    /\ [][(cpc = "pop_body" /\ cpc' # "pop_body" /\ queue.count = 0)
            => /\ last' = Returned("TryGetNextChange", FALSE)
               /\ queue' = queue
               /\ out_change' = out_change]_vars

\* TryGetNextChange has returned false on the empty queue while the watcher
\* thread is about to push
C9_Witness ==
    /\ last = Returned("TryGetNextChange", FALSE)
    /\ cpc = "idle"
    /\ queue.count = 0
    /\ wpc = "push_lock"

\* C10: while the completion routine pushes the records of the buffer it was
\* given, the next read of its request has been begun: it is pending, or it
\* has completed already, unless ShutDown has closed the directory handle.
C10_RearmBeforePush ==
    wpc \in {"push_lock", "push_body"}
        => \/ ReadPending(running.request)
           \/ handles[heap[running.request].directory] # "open"

\* the routine is pushing a decoded record while the next read is pending
C10_Witness ==
    /\ wpc = "push_body"
    /\ wbuffer # NullBuffer
    /\ inflight[running.request] # NoRead

\* the start-watching job of request r has run
Armed(r) ==
    /\ heap[r].state = "allocated"
    /\ \A i \in 1..Len(apc) : ~(apc[i].kind = "start" /\ apc[i].request = r)

\* the watcher thread is decoding a buffer of request r
Decoding(r) ==
    wpc \in {"push_lock", "push_body"} /\ running.request = r /\ wbuffer # NullBuffer

CompletionDelivered ==
    /\ wpc = "sleep"
    /\ apc # <<>>
    /\ Head(apc).kind = "completion"
    /\ Len(apc') < Len(apc)

\* C12: the routine of a completion that reports ERROR_OPERATION_ABORTED, or
\* that runs with should_terminate set, takes one off the outstanding counter,
\* frees its request and returns: no read is begun, the buffer index stays, and
\* nothing is pushed.
C12_ShutdownCompletion ==
    [][(CompletionDelivered
            /\ (Head(apc).error_code = ERROR_OPERATION_ABORTED \/ should_terminate))
         => /\ outstanding_request_count' = outstanding_request_count - 1
            /\ heap[Head(apc).request].state = "allocated"
            /\ heap' = [heap EXCEPT ![Head(apc).request].state = "freed"]
            /\ inflight' = inflight
            /\ pushed' = pushed
            /\ queue' = queue
            /\ running' = NoApc
            /\ wpc' \in {"check", "sleep"}]_vars

\* a completion without error was delivered after the flag was set: the request
\* is freed, the counter is back to zero and nothing was pushed
C12_Witness ==
    /\ should_terminate
    /\ \E r \in RequestIds : heap[r].state = "freed" /\ handles[r] = "open"
    /\ outstanding_request_count = 0
    /\ pushed = <<>>
    /\ reported > 0

\* nothing is left that would queue a routine to the watcher thread: ShutDown
\* has returned, no routine is queued and no read is in flight
NothingToWake ==
    /\ cpc = "returned"
    /\ apc = <<>>
    /\ \A r \in RequestIds : inflight[r] = NoRead

\* C13: after ShutDown the watcher thread exits: it is not left in SleepEx
\* with nothing to wake it, nor with a counter that nothing will bring to zero.
C13_WorkerExits ==
    NothingToWake
        => \/ wpc = "exited"
           \/ wpc = "check" /\ outstanding_request_count = 0
           \/ wpc \in {"rearm", "push_lock", "push_body"}

\* the reads of request r that are in flight or completed with the routine queued
ReadsOutstanding(r) ==
    (IF inflight[r] # NoRead THEN 1 ELSE 0)
        + Cardinality({i \in 1..Len(apc) :
                          apc[i].kind = "completion" /\ apc[i].request = r})

\* C14: a freed request has no read in flight, no completion queued and no
\* routine running; a request has at most one read outstanding, and a read is
\* begun only when none is; a request is freed only by the step that delivers
\* the completion of its own read, with ERROR_OPERATION_ABORTED or with
\* should_terminate set, and no completion is ever delivered for a request
\* already freed, so none is freed twice.
C14_FreedOnlyWhenQuiet ==
    /\ [](\A r \in RequestIds :
            /\ heap[r].state = "freed"
                  => ReadsOutstanding(r) = 0 /\ running.request # r
            /\ ReadsOutstanding(r) <= 1)
    /\ [][\A r \in RequestIds :
            /\ (heap[r].state # "freed" /\ heap'[r].state = "freed")
                  => /\ heap[r].state = "allocated"
                     /\ CompletionDelivered
                     /\ Head(apc).request = r
                     /\ Head(apc).error_code = ERROR_OPERATION_ABORTED
                           \/ should_terminate
            /\ heap[r].state = "freed" => heap'[r].state = "freed"
            /\ (CompletionDelivered /\ Head(apc).request = r)
                  => heap[r].state = "allocated"
            /\ (heap[r].state = "allocated"
                    /\ heap'[r].buffer_index # heap[r].buffer_index)
                  => ReadsOutstanding(r) = 0]_vars

\* a request that had reads completed was freed on the abort of its last read
C14_Witness ==
    \E r \in RequestIds :
        /\ heap[r].state = "freed"
        /\ handles[r] = "closed"
        /\ reported > 0
        /\ pushed # <<>>

\* C15: a queue that has been created and not destroyed has 0 <= count <=
\* capacity and 0 <= front_index < capacity, its storage has capacity slots,
\* the records pushed and not yet popped lie, in push order, in the slots
\* front_index, front_index + 1, ... taken modulo capacity, and no Push or Pop
\* lowers the capacity.
C15_QueueInvariant ==
    /\ [](/\ queue.capacity > 0
          /\ Len(queue.data) = queue.capacity
          /\ 0 <= queue.count /\ queue.count <= queue.capacity
          /\ 0 <= queue.front_index /\ queue.front_index < queue.capacity
          /\ queue.count = Len(pushed) - Len(popped)
          /\ \A i \in 0..(queue.count - 1) :
                queue.data[((queue.front_index + i) % queue.capacity) + 1]
                    = pushed[Len(popped) + i + 1])
    /\ [][queue'.capacity >= queue.capacity]_vars

\* the queue is full and its live records run past the end of the storage
C15_Witness ==
    /\ queue.count = queue.capacity
    /\ queue.front_index > 0
    /\ queue.front_index + queue.count > queue.capacity

\* C16: a Push onto a full queue doubles the capacity, sets front_index to 0,
\* and leaves as live records the ones there were, in their order, followed by
\* the record pushed, wherever the front was; and the records popped are the
\* records pushed, in push order, also after the queue has grown.
C16_GrowthPreservesOrder ==
    /\ [][(queue.count = queue.capacity /\ Len(pushed') = Len(pushed) + 1)
            => /\ queue'.capacity = 2 * queue.capacity
               /\ Len(queue'.data) = queue'.capacity
               /\ queue'.front_index = 0
               /\ queue'.count = queue.count + 1
               /\ Live(queue') = Append(Live(queue), pushed'[Len(pushed')])
               /\ \A i \in 1..queue.count :
                     queue'.data[i] = Slot(queue, (queue.front_index + i - 1)
                                                    % queue.capacity)]_vars
    /\ [](/\ popped = SubSeq(pushed, 1, Len(popped))
          /\ (queue.count = 0 /\ Len(pushed) > InitialCapacity) => popped = pushed)

\* the queue has grown while its front was the last slot of the storage, the
\* live records wrapped
C16_Witness ==
    /\ queue.capacity = InitialCapacity * GrowRate
    /\ queue.count = InitialCapacity + 1
    /\ queue.front_index = 0
    /\ Len(popped) = InitialCapacity - 1

\* a step of the controlling/consumer thread
ControllerStep ==
    \/ \E directory \in DirectoryPaths,
          handle \in RequestIds \cup {INVALID_HANDLE_VALUE} :
          AddDirectory(directory, handle)
    \/ TryGetNextChange \/ PopLock \/ PopBody
    \/ ShutDown \/ ShutDownClose \/ ShutDownNext \/ ShutDownCloseThread
    \/ DestroyLock \/ DestroyBody

\* a step of the watcher thread
WorkerStep ==
    \/ ThreadProc \/ ThreadAddDirectoryProc \/ NotificationCompletion
    \/ Rearm \/ PushLock \/ PushBody

\* the request list: its head and the next link of every request
RequestList == <<requests, [r \in RequestIds |-> heap[r].next]>>

\* the buffer index of every request
BufferIndices == [r \in RequestIds |-> heap[r].buffer_index]

\* C17: no step of the controlling thread changes the request list or a
\* request's buffer index, begins a read or pushes a record.
C17_SingleWriter ==
    [][ControllerStep
         => /\ RequestList' = RequestList
            /\ BufferIndices' = BufferIndices
            /\ inflight' = inflight
            /\ pushed' = pushed]_vars

\* C17, amended: no step of the controlling thread changes a request's buffer
\* index, begins a read or pushes a record, and every read begun, index
\* flipped and record pushed is a step of the watcher thread; the request list
\* is changed by AddDirectory alone, on the controlling thread, which links
\* the new request behind the last one, and by no step of the watcher thread.
C17_SingleWriterAmended ==
    [][/\ ControllerStep
            => /\ BufferIndices' = BufferIndices
               /\ \A r \in RequestIds :
                     inflight'[r] # NoRead => inflight[r] # NoRead
               /\ pushed' = pushed
       /\ (BufferIndices' # BufferIndices \/ pushed' # pushed
              \/ \E r \in RequestIds : inflight[r] = NoRead /\ inflight'[r] # NoRead)
            => WorkerStep
       /\ WorkerStep => RequestList' = RequestList
       /\ RequestList' # RequestList
            => /\ ControllerStep
               /\ cpc = "idle" /\ cpc' = "idle"
               /\ last' = Returned("AddDirectory", TRUE)
               /\ \E r \in RequestIds :
                     /\ heap[r].state = "unallocated"
                     /\ heap'[r].state = "allocated"
                     /\ heap'[r].next = NULL
                     /\ IF requests = NULL
                        THEN requests' = r
                        ELSE /\ requests' = requests
                             /\ heap'[LastRequest(heap, requests)].next = r
                     /\ \A o \in RequestIds \ {r} :
                           (requests = NULL \/ o # LastRequest(heap, requests))
                               => heap'[o].next = heap[o].next]_vars

\* AddDirectory has put a request on the list, and the watcher thread has
\* begun its reads and pushed a record of it
C17_Witness ==
    /\ requests # NULL
    /\ inflight[requests] # NoRead
    /\ heap[requests].buffer_index = 0
    /\ pushed # <<>>
    /\ last = Returned("AddDirectory", TRUE)

\* C18: the outstanding counter is never below zero, and whenever the watcher
\* thread is outside its callbacks the counter is the number of requests with
\* a read in flight or a completion still to be delivered.
C18_CounterMatches ==
    /\ outstanding_request_count >= 0
    /\ wpc \in {"check", "sleep", "exited"}
          => outstanding_request_count
                = Cardinality({r \in RequestIds : ReadsOutstanding(r) > 0})

\* C19: every request ShutDown's loop reads a field of (request->directory for
\* CancelIo and CloseHandle, current->next to go on) is allocated when it is read.
C19_TraversalReadsAllocated ==
    [][(ShutDownClose \/ ShutDownNext) => heap[current].state = "allocated"]_vars

\* the threads inside a locked section of the queue; a watcher thread that
\* crashed in Push never left its section
InSection ==
    (IF wpc \in {"push_body", "crashed"} THEN {"Push"} ELSE {})
        \cup (IF cpc = "pop_body" THEN {"Pop"} ELSE {})
        \cup (IF cpc = "destroy_body" THEN {"Destroy"} ELSE {})

\* C20: at most one thread is inside a locked section of Push, Pop or Destroy,
\* and the lock is held exactly then; a thread that leaves its section leaves
\* the lock free; the queue changes only in the step that ends a section, so
\* the queue a section sees is not changed by anyone else while the section
\* lasts.
C20_MutualExclusion ==
    /\ [](/\ Cardinality(InSection) <= 1
          /\ lock \in {0, 1}
          /\ lock = 1 <=> InSection # {})
    /\ [][/\ (InSection # {} /\ InSection' # InSection) => lock' = 0
          /\ queue' # queue
               => /\ InSection # {}
                  /\ InSection' = {}
                  /\ lock = 1
          /\ (InSection # {} /\ InSection' = InSection) => queue' = queue]_vars

\* the consumer spins in Pop's Lock() while the watcher thread is inside Push
C20_Witness ==
    /\ wpc = "push_body"
    /\ cpc = "pop_lock"
    /\ lock = 1

\* the entries of the buffer ProcessNotification was given in DecodeSpec
DecodedEntries == heap[requests].buffers[1]

\* C21: for a buffer of n chained entries ProcessNotification pushes n records,
\* one per entry, in entry order, and returns; the path of the i-th record is
\* the directory path AddDirectory was given, a separator unless that path
\* ends in one, and the file name of the i-th entry; its action is Added,
\* Removed, Modified, RenamedFrom or RenamedTo for the native codes
\* FILE_ACTION_ADDED .. FILE_ACTION_RENAMED_NEW_NAME and None for any other.
C21_Decode ==
    /\ Len(pushed) <= Len(DecodedEntries)
    /\ Live(queue) = pushed
    /\ wpc \in {"push_lock", "push_body"}
          => /\ Len(pushed) < Len(DecodedEntries)
             /\ woffset = Len(pushed)
    /\ wpc \notin {"push_lock", "push_body"}
          => /\ wpc = "check"
             /\ running = NoApc
             /\ Len(pushed) = Len(DecodedEntries)
    /\ \E directory \in DecodePaths :
          /\ heap[requests].path = MultiByteToWideChar(directory)
          /\ \A i \in 1..Len(pushed) :
                LET entry == DecodedEntries[i]
                    separator == IF directory[Len(directory)] = Backslash
                                 THEN <<>> ELSE <<Backslash>>
                IN /\ pushed[i].path
                        = directory \o separator \o EncodeUnits(entry.FileName)
                   /\ pushed[i].action
                        = CASE entry.Action = 1 -> "Added"
                            [] entry.Action = 2 -> "Removed"
                            [] entry.Action = 3 -> "Modified"
                            [] entry.Action = 4 -> "RenamedFrom"
                            [] entry.Action = 5 -> "RenamedTo"
                            [] OTHER -> "None"

\* ProcessNotification has returned from a buffer of two entries: a code it
\* does not know, then a new name under a directory path without a separator
C21_Witness ==
    /\ wpc = "check"
    /\ Len(DecodedEntries) = 2
    /\ Len(pushed) = 2
    /\ DecodedEntries[1].Action = FILE_ACTION_RENAMED_NEW_NAME + 1
    /\ pushed[1].action = "None"
    /\ pushed[2].action = "RenamedTo"
    /\ pushed[2].path = <<195, 169, Backslash, 98>>

=============================================================================
